---- MODULE Spec2Model ----
(***************************************************************************)
(* fork_queue.py: list the branches of the GitHub forks of a repository    *)
(* that have not been merged into a branch of the local git repository.    *)
(*                                                                         *)
(* Two specifications:                                                     *)
(*   Spec       main() run over the answers of the GitHub API              *)
(*   SpecMerge  branch_is_merged() applied to every branch commit, over    *)
(*              every local commit graph of at most MaxCommit commits      *)
(***************************************************************************)
EXTENDS Naturals, Sequences, FiniteSets

\* Bounds of the model.
MaxHash == 2
MaxCommit == 4
MaxForks == 2
MaxBranches == 2

\* Commit hashes the API can answer with in a run of main().
Hashes == 1..MaxHash
\* Commit hashes of the graphs branch_is_merged() is applied to.
Commits == 1..MaxCommit

\* Names the API answers with: the k-th fork and the j-th branch of a fork.
Owners == <<"alice", "bob", "carol", "dave">>
BranchNames == <<"master", "feature", "fix", "dev">>

VARIABLES
    objects,             \* local repository: the commit hashes it holds
    parents,             \* local repository: commit -> set of parent commits
    refs,                \* local repository: ref name -> commit
    integration_branch,  \* the integration_branch argument
    forks,               \* what get_forks(repository) yields
    fetched,             \* what get_branches(fork) yielded, fork by fork
    i,                   \* number of forks the loop of main() has finished
    all_unmerged,        \* main(): all_unmerged
    output,              \* the lines printed so far
    pc,                  \* "start", "loop", "done", "fatal"; "unit" in SpecMerge
    ret                  \* SpecMerge: the last call of branch_is_merged

vars == <<objects, parents, refs, integration_branch, forks, fetched, i,
          all_unmerged, output, pc, ret>>

----------------------------------------------------------------------------
\* The local repository (git.Repo)

\* The commit graphs over the hashes U: any set of objects, every commit with
\* any set of older commits as parents.
Graphs(U) ==
    UNION { { [objs |-> O, par |-> p] :
                p \in { q \in [O -> SUBSET O] : \A c \in O : \A d \in q[c] : d < c } }
            : O \in SUBSET U }

\* Repository with the ref "main" pointing at any commit, or missing.
RefMaps(O) == { [n \in {} |-> 0] } \cup { [n \in {"main"} |-> c] : c \in O }

\* local_repo.commit(hexsha): the commit, or BadObject raised
CommitByHash(h) ==
    IF h \in objects THEN [ok |-> TRUE, commit |-> h]
    ELSE [ok |-> FALSE, error |-> "BadObject"]

\* local_repo.commit(refname): the commit, or an error that is no BadObject
CommitByRef(name) ==
    IF name \in DOMAIN refs THEN [ok |-> TRUE, commit |-> refs[name]]
    ELSE [ok |-> FALSE, error |-> "BadName"]

RECURSIVE Closure(_)
Closure(S) ==
    LET T == S \cup UNION { parents[c] : c \in S }
    IN  IF T = S THEN S ELSE Closure(T)

RECURSIVE Descending(_)
Descending(S) ==
    IF S = {} THEN <<>>
    ELSE LET m == CHOOSE x \in S : \A y \in S : y <= x
         IN  <<m>> \o Descending(S \ {m})

\* git rev-list <commit>: the commit first, then everything reachable from it
RevList(c) == Descending(Closure({c}))

\* The mutant lists the direct parents only.
IterParentsDirect(c) == Descending(parents[c])

\* Commit.iter_parents(): rev-list with the commit itself skipped
IterParents(c) == Tail(RevList(c))

----------------------------------------------------------------------------
\* branch_is_merged(branch, local_repo, integration_branch)

\* for commit in integration_branch.iter_parents(): if commit == branch_commit
Walk(head, branch_commit) ==
    IF \E k \in 1..Len(IterParents(head)) : IterParents(head)[k] = branch_commit
    THEN "True" ELSE "False"

\* The mutant lets BadObject escape.
BranchIsMergedNoExcept(commit) ==
    IF ~CommitByHash(commit).ok THEN "raise"
    ELSE IF ~CommitByRef(integration_branch).ok THEN "raise"
    ELSE Walk(CommitByRef(integration_branch).commit, CommitByHash(commit).commit)

\* The mutant resolves the integration ref before the branch commit.
BranchIsMergedRefFirst(commit) ==
    IF ~CommitByRef(integration_branch).ok THEN "raise"
    ELSE IF ~CommitByHash(commit).ok THEN "False"
    ELSE Walk(CommitByRef(integration_branch).commit, CommitByHash(commit).commit)

\* The mutant answers by the age of the commit instead of walking.
BranchIsMergedOlder(commit) ==
    IF ~CommitByHash(commit).ok THEN "False"
    ELSE IF ~CommitByRef(integration_branch).ok THEN "raise"
    ELSE IF CommitByHash(commit).commit < CommitByRef(integration_branch).commit
         THEN "True" ELSE "False"

\* "True", "False", or "raise" for an exception nothing handles
BranchIsMerged(commit) ==
    IF ~CommitByHash(commit).ok
    THEN \* except BadObject: return False
         IF CommitByHash(commit).error = "BadObject" THEN "False" ELSE "raise"
    ELSE IF ~CommitByRef(integration_branch).ok THEN "raise"
    ELSE Walk(CommitByRef(integration_branch).commit, CommitByHash(commit).commit)

----------------------------------------------------------------------------
\* The GitHub API

\* Repository(owner, name) of the k-th fork the API lists
Repository(k) == [owner |-> Owners[k], name |-> "repo"]

\* get_forks(repository): the first page of the forks, in the API's order
GetForksAnswers == { [k \in 1..n |-> Repository(k)] : n \in 0..MaxForks }

\* Branch(name, commit) for the j-th branch of a fork
Branch(j, h) == [name |-> BranchNames[j], commit |-> h]

\* get_branches(fork): the first page of the branches, in the API's order
GetBranchesAnswers ==
    UNION { { [j \in 1..n |-> Branch(j, hs[j])] : hs \in [1..n -> Hashes] }
            : n \in 0..MaxBranches }

----------------------------------------------------------------------------
\* main(repository, integration_branch)

\* Some call of branch_is_merged in the comprehension raises.
Raises(branches) ==
    \E j \in 1..Len(branches) : BranchIsMerged(branches[j].commit) = "raise"

Keep(seen, b) == BranchIsMerged(b.commit) = "False" /\ b.commit \notin seen

\* The mutant adds every branch to the set as soon as the comprehension
\* meets it.
RECURSIVE UnmergedBranchesEager(_, _)
UnmergedBranchesEager(branches, seen) ==
    IF branches = <<>> THEN <<>>
    ELSE IF Keep(seen, Head(branches))
         THEN <<Head(branches)>> \o
              UnmergedBranchesEager(Tail(branches), seen \cup {Head(branches).commit})
         ELSE UnmergedBranchesEager(Tail(branches), seen)

\* The mutant forgets to look into the set.
UnmergedBranchesNoSet(branches, seen) ==
    SelectSeq(branches, LAMBDA b : Keep({}, b))

\* unmerged_branches = [branch for branch in get_branches(fork) if ...]
UnmergedBranches(branches, seen) ==
    SelectSeq(branches, LAMBDA b : Keep(seen, b))

\* The mutant leaves the set as it was.
UpdateNothing(seen, unmerged_branches) == seen

\* all_unmerged.update(b.commit for b in unmerged_branches)
Update(seen, unmerged_branches) ==
    seen \cup { unmerged_branches[j].commit : j \in 1..Len(unmerged_branches) }

\* "%s/%s:" % (fork.owner, fork.name)
HeaderLine(fork) == <<fork.owner, "/", fork.name, ":">>

\* "  %s" % branch.name
BranchLine(b) == <<"  ", b.name>>

Reverse(s) == [k \in 1..Len(s) |-> s[Len(s) + 1 - k]]

\* The mutant prints the header of every fork.
PrintForkAlways(fork, unmerged_branches) ==
    <<HeaderLine(fork)>> \o
    [j \in 1..Len(unmerged_branches) |-> BranchLine(unmerged_branches[j])]

\* The mutant prints the branches of a fork last to first.
PrintForkReversed(fork, unmerged_branches) ==
    IF unmerged_branches # <<>>
    THEN <<HeaderLine(fork)>> \o
         Reverse([j \in 1..Len(unmerged_branches) |-> BranchLine(unmerged_branches[j])])
    ELSE <<>>

\* if unmerged_branches: print the header, then one line for each branch
PrintFork(fork, unmerged_branches) ==
    IF unmerged_branches # <<>>
    THEN <<HeaderLine(fork)>> \o
         [j \in 1..Len(unmerged_branches) |-> BranchLine(unmerged_branches[j])]
    ELSE <<>>

repo == <<objects, parents, refs, integration_branch>>

\* for fork in get_forks(repository): the request of the first iteration
GetForks ==
    /\ pc = "start"
    /\ \E answer \in GetForksAnswers : forks' = answer
    /\ pc' = "loop"
    /\ UNCHANGED <<repo, fetched, i, all_unmerged, output, ret>>

\* One iteration of the loop over the forks.
ProcessFork ==
    /\ pc = "loop"
    /\ i < Len(forks)
    /\ \E branches \in GetBranchesAnswers :
          /\ fetched' = Append(fetched, branches)
          /\ IF Raises(branches)
             THEN /\ pc' = "fatal"
                  /\ UNCHANGED <<i, all_unmerged, output>>
             ELSE LET unmerged_branches == UnmergedBranches(branches, all_unmerged)
                  IN  /\ all_unmerged' = Update(all_unmerged, unmerged_branches)
                      /\ output' = output \o PrintFork(forks[i + 1], unmerged_branches)
                      /\ i' = i + 1
                      /\ pc' = pc
    /\ UNCHANGED <<repo, forks, ret>>

\* The loop over the forks is exhausted: main returns.
Return ==
    /\ pc = "loop"
    /\ i = Len(forks)
    /\ pc' = "done"
    /\ UNCHANGED <<repo, forks, fetched, i, all_unmerged, output, ret>>

NoCall == [called |-> FALSE]

InitRepo(U) ==
    \E g \in Graphs(U) :
        /\ objects = g.objs
        /\ parents = g.par
        /\ refs \in RefMaps(g.objs)
        /\ integration_branch = "main"

InitMain ==
    /\ forks = <<>>
    /\ fetched = <<>>
    /\ i = 0
    /\ all_unmerged = {}
    /\ output = <<>>
    /\ ret = NoCall

Init == InitRepo(Hashes) /\ InitMain /\ pc = "start"

Next == GetForks \/ ProcessFork \/ Return

Spec == Init /\ [][Next]_vars

----------------------------------------------------------------------------
\* branch_is_merged on its own, for every branch commit

CallBranchIsMerged ==
    /\ pc = "unit"
    /\ \E h \in Commits :
          ret' = [called |-> TRUE, commit |-> h, value |-> BranchIsMerged(h)]
    /\ UNCHANGED <<repo, forks, fetched, i, all_unmerged, output, pc>>

InitMerge == InitRepo(Commits) /\ InitMain /\ pc = "unit"

NextMerge == CallBranchIsMerged

SpecMerge == InitMerge /\ [][NextMerge]_vars

----------------------------------------------------------------------------
\* Properties of branch_is_merged (SpecMerge)

ValidRef == integration_branch \in DOMAIN refs

\* The commits N parent links away from commit c.
RECURSIVE Generation(_, _)
Generation(c, n) ==
    IF n = 0 THEN {c} ELSE UNION { parents[d] : d \in Generation(c, n - 1) }

\* N parent links lead from the integration head to commit h.
LinksFromHead(n, h) == h \in Generation(refs[integration_branch], n)

\* C1: a branch whose commit is the head of the integration branch is
\* reported as merged.
C1_HeadIsMerged ==
    (ret.called /\ ValidRef /\ ret.commit = refs[integration_branch])
        => ret.value = "True"

\* C2: a branch whose commit is N >= 1 parent links away from the integration
\* head is merged, for every N and along every parent of a merge commit.
C2_AncestorIsMerged ==
    (ret.called /\ ValidRef
        /\ \E n \in 1..MaxCommit : LinksFromHead(n, ret.commit))
        => ret.value = "True"

\* The head is a merge commit, and the commit is found two links back behind
\* one of its parents while the other parent does not lead to it.
C2_Witness ==
    /\ ret.called /\ ValidRef /\ ret.value = "True"
    /\ LinksFromHead(2, ret.commit)
    /\ ~LinksFromHead(1, ret.commit)
    /\ Cardinality(parents[refs[integration_branch]]) = 2
    /\ \E d \in parents[refs[integration_branch]] : ret.commit \notin Closure({d})

\* C3: a branch whose commit is in the local repository but that no chain of
\* parent links from the integration head reaches is not merged.
C3_UnreachableIsNotMerged ==
    (ret.called /\ ValidRef /\ ret.commit \in objects
        /\ \A n \in 0..MaxCommit : ~LinksFromHead(n, ret.commit))
        => ret.value = "False"

\* A commit on a divergent line: it shares an ancestor with the head, and
\* neither reaches the other.
C3_Witness ==
    /\ ret.called /\ ValidRef /\ ret.commit \in objects /\ ret.value = "False"
    /\ \A n \in 0..MaxCommit : ~LinksFromHead(n, ret.commit)
    /\ refs[integration_branch] \notin Closure({ret.commit})
    /\ Closure({ret.commit}) \cap Closure({refs[integration_branch]}) /= {}

\* C4: a branch whose commit is not in the local repository is not merged,
\* and the call returns instead of raising.
C4_AbsentIsNotMerged ==
    (ret.called /\ ret.commit \notin objects) => ret.value = "False"

C4_Witness ==
    /\ ret.called /\ ret.commit \notin objects /\ ret.value = "False"
    /\ ValidRef

\* C8 as stated: with an integration ref that does not resolve, every call
\* of branch_is_merged raises.
C8_InvalidRefAlwaysRaises ==
    (ret.called /\ ~ValidRef) => ret.value = "raise"

\* C8: with an integration ref that does not resolve, the call raises when
\* the commit of the branch is in the local repository, and returns False
\* when it is not.
C8_InvalidRefRaisesForLocalCommit ==
    (ret.called /\ ~ValidRef) =>
        /\ ret.commit \in objects => ret.value = "raise"
        /\ ret.commit \notin objects => ret.value = "False"

C8_Witness ==
    /\ ret.called /\ ~ValidRef /\ ret.commit \in objects /\ ret.value = "raise"

----------------------------------------------------------------------------
\* Properties of main (Spec)

IsHeader(line) == Len(line) = 4

Lines == 1..Len(output)

Idx(k) == 1..Len(fetched[k])

\* Line p stands in the group of the header of fork k: that header comes
\* before it with no other header in between.
Under(p, k) ==
    \E q \in 1..(p - 1) :
        /\ output[q] = HeaderLine(forks[k])
        /\ \A r \in (q + 1)..p : ~IsHeader(output[r])

\* Line p reports branch j of fork k.
PrintedAt(p, k, j) == output[p] = BranchLine(fetched[k][j]) /\ Under(p, k)

Printed(k, j) == \E p \in Lines : PrintedAt(p, k, j)

Unmerged(k, j) == BranchIsMerged(fetched[k][j].commit) = "False"

SameCommit(k1, j1, k2, j2) == fetched[k1][j1].commit = fetched[k2][j2].commit

\* Fork k is the first fork with a branch at the commit of its branch j.
FirstWith(k, j) ==
    \A k0 \in 1..(k - 1) : \A j0 \in Idx(k0) : ~SameCommit(k0, j0, k, j)

\* C5: of two forks with a branch at the same unmerged commit, the branch is
\* printed under the fork the API listed first and not under the later one.
C5_LaterForkSuppressed ==
    \A k2 \in 1..i : \A k1 \in 1..(k2 - 1) :
        \A j1 \in Idx(k1) : \A j2 \in Idx(k2) :
            (SameCommit(k1, j1, k2, j2) /\ Unmerged(k1, j1)) =>
                /\ ~Printed(k2, j2)
                /\ FirstWith(k1, j1) => Printed(k1, j1)

C5_Witness ==
    /\ pc = "done" /\ i = 2
    /\ \E j1 \in Idx(1) : \E j2 \in Idx(2) :
          /\ SameCommit(1, j1, 2, j2) /\ Unmerged(1, j1)
          /\ Printed(1, j1) /\ ~Printed(2, j2)
    /\ \E j2 \in Idx(2) : Printed(2, j2)

\* C6: the output follows the order of the API: the headers in the order of
\* the forks, every branch line in the group of the header of its own fork,
\* and the branch lines of a group in the order of the branches.
C6_OutputInApiOrder ==
    /\ \A p \in Lines :
          \/ \E k \in 1..i : output[p] = HeaderLine(forks[k])
          \/ \E k \in 1..i : \E j \in Idx(k) : PrintedAt(p, k, j)
    /\ \A p \in Lines : \A q \in Lines : \A k1 \in 1..i : \A k2 \in 1..i :
          (p < q /\ output[p] = HeaderLine(forks[k1])
                 /\ output[q] = HeaderLine(forks[k2])) => k1 < k2
    /\ \A p \in Lines : \A q \in Lines : \A k \in 1..i :
          \A j1 \in Idx(k) : \A j2 \in Idx(k) :
              (p < q /\ PrintedAt(p, k, j1) /\ PrintedAt(q, k, j2)) => j1 < j2

\* Two groups, one of them with two branch lines.
C6_Witness ==
    /\ pc = "done"
    /\ \E p \in Lines : \E q \in Lines :
          p < q /\ IsHeader(output[p]) /\ IsHeader(output[q])
    /\ \E k \in 1..i : Len(fetched[k]) = 2 /\ Printed(k, 1) /\ Printed(k, 2)

\* C7 as stated: no commit is reported twice in the whole output, branches
\* of one fork included.
C7_NoCommitPrintedTwice ==
    \A k1 \in 1..i : \A k2 \in 1..i : \A j1 \in Idx(k1) : \A j2 \in Idx(k2) :
        (Printed(k1, j1) /\ Printed(k2, j2) /\ SameCommit(k1, j1, k2, j2))
            => (k1 = k2 /\ j1 = j2)

\* C7: no commit is reported under two forks.
C7_NoCommitPrintedUnderTwoForks ==
    \A k1 \in 1..i : \A k2 \in 1..i : \A j1 \in Idx(k1) : \A j2 \in Idx(k2) :
        (Printed(k1, j1) /\ Printed(k2, j2) /\ SameCommit(k1, j1, k2, j2))
            => k1 = k2

\* Two branches of the first fork are printed with the same commit, and a
\* branch of the second fork at that commit is not.
C7_Witness ==
    /\ i = 2
    /\ Len(fetched[1]) = 2 /\ SameCommit(1, 1, 1, 2)
    /\ Printed(1, 1) /\ Printed(1, 2)
    /\ \E j \in Idx(2) : SameCommit(1, 1, 2, j) /\ ~Printed(2, j)

PrintedCommits == { c \in Hashes :
    \E k \in 1..i : \E j \in Idx(k) : Printed(k, j) /\ fetched[k][j].commit = c }

\* Fork i + 1 has just been processed.
ForkDone == i' = i + 1

\* The step printed the header of fork i + 1 and under it branch j.
PrintedNow(j) ==
    /\ Len(output') > Len(output)
    /\ output'[Len(output) + 1] = HeaderLine(forks[i'])
    /\ \E p \in (Len(output) + 2)..Len(output') :
          output'[p] = BranchLine(fetched'[i'][j])

\* C9: after each fork all_unmerged is the set of the commits of the branches
\* printed so far, it holds the commit of no merged branch, it never shrinks,
\* and a branch is printed exactly when branch_is_merged is False for it and
\* its commit was not in all_unmerged when its fork began.
C9_Accumulator ==
    /\ [](/\ all_unmerged = PrintedCommits
          /\ \A c \in all_unmerged : BranchIsMerged(c) = "False")
    /\ [][/\ all_unmerged \subseteq all_unmerged'
          /\ ForkDone => \A j \in 1..Len(fetched'[i']) :
                PrintedNow(j) <=>
                    (/\ BranchIsMerged(fetched'[i'][j].commit) = "False"
                     /\ fetched'[i'][j].commit \notin all_unmerged)]_vars

\* The first fork had a merged branch and a branch that was printed; the
\* second fork had a branch at that commit, which was not printed.
C9_Witness ==
    /\ i = 2 /\ pc = "done"
    /\ \E j \in Idx(1) : ~Unmerged(1, j)
    /\ \E j \in Idx(1) : \E j2 \in Idx(2) :
          /\ Printed(1, j) /\ fetched[1][j].commit \in all_unmerged
          /\ SameCommit(1, j, 2, j2) /\ Unmerged(2, j2) /\ ~Printed(2, j2)

HasHeader(k) == \E p \in Lines : output[p] = HeaderLine(forks[k])

\* C10: the header of a fork is printed exactly when a branch of the fork is
\* reported, and every header is followed by a branch line.
C10_HeaderIffBranch ==
    /\ \A k \in 1..Len(forks) :
          HasHeader(k) <=> (k <= i /\ \E j \in Idx(k) : Printed(k, j))
    /\ \A p \in Lines :
          IsHeader(output[p]) => (p < Len(output) /\ ~IsHeader(output[p + 1]))
    /\ output /= <<>> => IsHeader(output[1])

\* One fork has its header, and a fork with branches has none: one of its
\* branches is merged, the other is at a commit reported before.
C10_Witness ==
    /\ pc = "done" /\ i = 2
    /\ HasHeader(1) /\ ~HasHeader(2)
    /\ Len(fetched[2]) = 2
    /\ \E j \in Idx(2) : ~Unmerged(2, j)
    /\ \E j \in Idx(2) : Unmerged(2, j) /\ fetched[2][j].commit \in all_unmerged

====
